---- MODULE Spec2Model ----
(***************************************************************************)
(* kira: sets the brightness of /sys/class/backlight/intel_backlight.      *)
(* The module models src/main.rs: the argument parser                      *)
(* (parse_input_as_percent), the target calculator                         *)
(* (calculate_target_value) with its f32 arithmetic, and the run of kira() *)
(* against the sysfs brightness attribute, one step per I/O call.          *)
(*                                                                         *)
(* Three specifications share the variables:                               *)
(*   Spec       one invocation of kira()                                   *)
(*   SpecCalc   calculate_target_value called as the unit tests call it    *)
(*   SpecParse  parse_input_as_percent called as the unit tests call it    *)
(***************************************************************************)
EXTENDS Integers, Sequences, FiniteSets, TLC

VARIABLES
    pc,                        \* position of kira() in its body
    dev_max,                   \* content of the max_brightness attribute
    brightness,                \* content of the brightness attribute (the hardware level)
    args,                      \* std::env::args(): <<program>> or <<program, token>>
    max_brightness_value,      \* local of kira()
    current_value,             \* local of kira()
    target,                    \* local of kira()
    current_brightness_value,  \* local of kira()
    iter,                      \* the RangeInclusive the for loop consumes
    b,                         \* loop variable of the for loops
    opened,                    \* File::create(&brightness) has succeeded
    result,                    \* what kira() returned: <<>> while running
    brightness0,               \* history: brightness when the invocation started
    writes,                    \* history: values stored by successful write_all calls
    attempts,                  \* history: number of write_all calls made
    flushed,                   \* history: number of successful sync_data calls
    call,                      \* unit-test harness: the call under test
    ret                        \* unit-test harness: <<>> or <<returned value>>

kira_vars == <<pc, dev_max, brightness, args, max_brightness_value, current_value,
               target, current_brightness_value, iter, b, opened, result,
               brightness0, writes, attempts, flushed>>

vars == <<pc, dev_max, brightness, args, max_brightness_value, current_value,
          target, current_brightness_value, iter, b, opened, result,
          brightness0, writes, attempts, flushed, call, ret>>

----------------------------------------------------------------------------
(* Bounds of the model and constants of the program *)

MaxBrightness == 4
MaxSmall == 2
MaxTokenLen == 4

U8Max == 255
U16Max == 65535
F32Precision == 24

----------------------------------------------------------------------------
(* Option<bool>, the signum of a directive *)

None == <<>>

Some(x) == <<x>>

----------------------------------------------------------------------------
(* f32 arithmetic of line 148. A finite non-negative f32 is held as       *)
(* <<m, s>>, standing for m / 2^s; every operation rounds its exact result *)
(* to F32Precision significant bits, ties to even.                         *)

RECURSIVE ExcessBits(_, _)
ExcessBits(n, k) ==
    IF n < 2^(F32Precision + k) THEN k ELSE ExcessBits(n, k + 1)

\* u16 as f32 / u8 as f32: every value below 2^24 is representable
IntAsF32(n) == <<n, 0>>

RoundHalfEven(q, r, d) ==
    IF 2 * r > d \/ (2 * r = d /\ q % 2 = 1) THEN q + 1 ELSE q

\* x * y for integer-valued operands
F32Mul(x, y) ==
    LET p == x[1] * y[1]
        k == ExcessBits(p, 0)
        q == RoundHalfEven(p \div 2^k, p % 2^k, 2^k)
    IN  <<q * 2^k, 0>>

RECURSIVE Normalise(_, _, _)
Normalise(n, d, s) ==
    IF n * 2^s >= 2^(F32Precision - 1) * d THEN s ELSE Normalise(n, d, s + 1)

\* x / y for integer-valued operands, the quotient below 2^24
F32Div(x, y) ==
    IF x[1] = 0 THEN <<0, 0>>
    ELSE LET s == Normalise(x[1], y[1], 0)
             n == x[1] * 2^s
         IN  <<RoundHalfEven(n \div y[1], n % y[1], y[1]), s>>

\* mutant: the cast rounds to the nearest integer
F32AsU16_rounding(x) ==
    LET d == 2^(x[2])
        t == RoundHalfEven(x[1] \div d, x[1] % d, d)
    IN  IF t > U16Max THEN U16Max ELSE t

\* `as u16`: truncates toward zero and saturates at u16::MAX
F32AsU16(x) ==
    LET t == x[1] \div 2^(x[2])
    IN  IF t > U16Max THEN U16Max ELSE t

\* mutant: the sum wraps at 2^16
wrapping_add(x, y) == (x + y) % (U16Max + 1)

saturating_add(x, y) == IF x + y > U16Max THEN U16Max ELSE x + y

saturating_sub(x, y) == IF x < y THEN 0 ELSE x - y

percent_of_max(max, percent) ==
    F32AsU16(F32Div(F32Mul(IntAsF32(max), IntAsF32(percent)), IntAsF32(100)))

\* mutant: a relative directive is capped at max but not floored at min
calculate_target_value_no_floor(signum, percent, current, max, min) ==
    LET value == percent_of_max(max, percent)
    IN  IF signum # None
        THEN LET new_value == IF signum[1]
                              THEN saturating_add(current, value)
                              ELSE saturating_sub(current, value)
             IN  IF new_value >= max THEN max ELSE new_value
        ELSE IF value >= max THEN max
             ELSE IF value <= min THEN min
             ELSE value

calculate_target_value(signum, percent, current, max, min) ==
    LET value == percent_of_max(max, percent)
    IN  IF signum # None
        THEN LET new_value == IF signum[1]
                              THEN saturating_add(current, value)
                              ELSE saturating_sub(current, value)
             IN  IF new_value >= max THEN max
                 ELSE IF new_value <= min THEN min
                 ELSE new_value
        ELSE IF value >= max THEN max
             ELSE IF value <= min THEN min
             ELSE value

----------------------------------------------------------------------------
(* parse_input_as_percent and <u8 as FromStr>::from_str. A &str is a       *)
(* sequence of one-character strings.                                      *)

DigitChars == <<"0", "1", "2", "3", "4", "5", "6", "7", "8", "9">>

IsDigit(c) == \E i \in 1..Len(DigitChars) : DigitChars[i] = c

\* char::to_digit(10) of a decimal digit
to_digit(c) == (CHOOSE i \in 1..Len(DigitChars) : DigitChars[i] = c) - 1

ParseOk(v) == [ok |-> TRUE, value |-> v]

ParseErr(kind) == [ok |-> FALSE, error |-> "ParseIntError", kind |-> kind]

\* the digit loop: checked_mul by the radix, then checked_add of the digit
RECURSIVE accumulate(_, _, _)
accumulate(digits, acc, limit) ==
    IF digits = <<>> THEN ParseOk(acc)
    ELSE IF ~IsDigit(Head(digits)) THEN ParseErr("InvalidDigit")
    ELSE IF acc * 10 > limit THEN ParseErr("PosOverflow")
    ELSE IF acc * 10 + to_digit(Head(digits)) > limit THEN ParseErr("PosOverflow")
    ELSE accumulate(Tail(digits), acc * 10 + to_digit(Head(digits)), limit)

\* mutant: the percentage is parsed as a u16
parse_u8_as_u16(src) ==
    IF src = <<>> THEN ParseErr("Empty")
    ELSE IF Len(src) = 1 /\ Head(src) \in {"+", "-"} THEN ParseErr("InvalidDigit")
    ELSE IF Head(src) = "+" THEN accumulate(Tail(src), 0, U16Max)
    ELSE accumulate(src, 0, U16Max)

\* str::parse::<u8>(): an unsigned type takes one leading '+', never a '-'
parse_u8(src) ==
    IF src = <<>> THEN ParseErr("Empty")
    ELSE IF Len(src) = 1 /\ Head(src) \in {"+", "-"} THEN ParseErr("InvalidDigit")
    ELSE IF Head(src) = "+" THEN accumulate(Tail(src), 0, U8Max)
    ELSE accumulate(src, 0, U8Max)

starts_with(input, c) == input # <<>> /\ Head(input) = c

Directive(signum, parsed) ==
    IF parsed.ok
    THEN [ok |-> TRUE, signum |-> signum, percent |-> parsed.value]
    ELSE parsed

parse_input_as_percent(input) ==
    IF starts_with(input, "+") THEN Directive(Some(TRUE), parse_u8(Tail(input)))
    ELSE IF starts_with(input, "-") THEN Directive(Some(FALSE), parse_u8(Tail(input)))
    ELSE Directive(None, parse_u8(input))

----------------------------------------------------------------------------
(* One invocation of kira() *)

Ok == <<"Ok">>

Err(kind, op) == <<"Err", kind, op>>

Running == <<>>

ProgramName == <<"k", "i", "r", "a">>

\* the tokens an invocation is given in this model
KiraTokens ==
    { <<>>, <<"0">>, <<"5", "0">>, <<"1", "0", "0">>, <<"2", "0", "0">>,
      <<"+", "0">>, <<"+", "2", "5">>, <<"-", "2", "5">>, <<"+", "5", "0">>,
      <<"-", "5", "0">>, <<"+", "2", "5", "5">>, <<"-", "1", "0", "0">>,
      <<"3", "0", "0">>, <<"-", "3", "0", "0">>, <<"x">>, <<"+">>,
      <<"f", "i", "v", "e">>, <<"+", "+", "5", "0">> }

\* max_brightness of the devices in this model; 96000 is a panel whose
\* maximum does not fit a u16
DeviceMaxValues == 0..MaxBrightness \cup {96000}

Smaller(x, y) == IF x < y THEN x ELSE y

\* read_to_string(..)?.trim().parse::<u16>() of an attribute holding n
parse_u16(n) == IF n > U16Max THEN ParseErr("PosOverflow") ELSE ParseOk(n)

NoRange == [start |-> 0, end |-> 0, exhausted |-> TRUE, rev |-> FALSE]

\* mutant: the half-open range start..end, which leaves the end out
range_next_exclusive(it) ==
    IF it.start < it.end
    THEN [some |-> TRUE, item |-> it.start, it |-> [it EXCEPT !.start = @ + 1]]
    ELSE [some |-> FALSE, item |-> 0, it |-> it]

\* RangeInclusive<u16>::next
range_next(it) ==
    IF it.exhausted \/ it.start > it.end
    THEN [some |-> FALSE, item |-> 0, it |-> it]
    ELSE IF it.start < it.end
    THEN [some |-> TRUE, item |-> it.start, it |-> [it EXCEPT !.start = @ + 1]]
    ELSE [some |-> TRUE, item |-> it.start, it |-> [it EXCEPT !.exhausted = TRUE]]

\* RangeInclusive<u16>::next_back, which Rev::next calls
range_next_back(it) ==
    IF it.exhausted \/ it.start > it.end
    THEN [some |-> FALSE, item |-> 0, it |-> it]
    ELSE IF it.start < it.end
    THEN [some |-> TRUE, item |-> it.end, it |-> [it EXCEPT !.end = @ - 1]]
    ELSE [some |-> TRUE, item |-> it.end, it |-> [it EXCEPT !.exhausted = TRUE]]

HarnessIdle == call = <<>> /\ ret = <<>>

Init ==
    /\ pc = "read_max"
    /\ dev_max \in DeviceMaxValues
    /\ brightness \in 0..Smaller(dev_max, MaxBrightness)
    /\ args \in {<<ProgramName>>} \cup {<<ProgramName, t>> : t \in KiraTokens}
    /\ max_brightness_value = 0
    /\ current_value = 0
    /\ target = 0
    /\ current_brightness_value = 0
    /\ iter = NoRange
    /\ b = 0
    /\ opened = FALSE
    /\ result = Running
    /\ brightness0 = brightness
    /\ writes = <<>>
    /\ attempts = 0
    /\ flushed = 0
    /\ HarnessIdle

Goto(label) == pc' = label /\ result' = result

Return(r) == pc' = "done" /\ result' = r

\* line 80-82
ReadMaxBrightness ==
    /\ pc = "read_max"
    /\ \E io_ok \in BOOLEAN :
         IF ~io_ok
         THEN Return(Err("io::Error", "read_max")) /\ UNCHANGED max_brightness_value
         ELSE IF ~parse_u16(dev_max).ok
         THEN Return(Err("ParseIntError", "read_max")) /\ UNCHANGED max_brightness_value
         ELSE max_brightness_value' = parse_u16(dev_max).value /\ Goto("read_current")
    /\ UNCHANGED <<dev_max, brightness, args, current_value, target,
                   current_brightness_value, iter, b, opened, brightness0,
                   writes, attempts, flushed, call, ret>>

\* line 84
ReadCurrent ==
    /\ pc = "read_current"
    /\ \E io_ok \in BOOLEAN :
         IF ~io_ok
         THEN Return(Err("io::Error", "read_current")) /\ UNCHANGED current_value
         ELSE IF ~parse_u16(brightness).ok
         THEN Return(Err("ParseIntError", "read_current")) /\ UNCHANGED current_value
         ELSE current_value' = parse_u16(brightness).value /\ Goto("args")
    /\ UNCHANGED <<dev_max, brightness, args, max_brightness_value, target,
                   current_brightness_value, iter, b, opened, brightness0,
                   writes, attempts, flushed, call, ret>>

\* mutant: without an argument the brightness is left where it is
ComputeTarget_default_current ==
    /\ pc = "args"
    /\ IF Len(args) > 1
       THEN LET parsed == parse_input_as_percent(args[2])
            IN  IF ~parsed.ok
                THEN Return(Err("ParseIntError", "parse_input_as_percent"))
                     /\ UNCHANGED target
                ELSE /\ target' = calculate_target_value(parsed.signum, parsed.percent,
                                      current_value, max_brightness_value, 0)
                     /\ Goto("read_again")
       ELSE target' = current_value /\ Goto("read_again")
    /\ UNCHANGED <<dev_max, brightness, args, max_brightness_value, current_value,
                   current_brightness_value, iter, b, opened, brightness0,
                   writes, attempts, flushed, call, ret>>

\* mutant: the brightness file is created before the argument is parsed
ComputeTarget_file_first ==
    /\ pc = "args"
    /\ opened' = TRUE
    /\ IF Len(args) > 1
       THEN LET parsed == parse_input_as_percent(args[2])
            IN  IF ~parsed.ok
                THEN Return(Err("ParseIntError", "parse_input_as_percent"))
                     /\ UNCHANGED target
                ELSE /\ target' = calculate_target_value(parsed.signum, parsed.percent,
                                      current_value, max_brightness_value, 0)
                     /\ Goto("read_again")
       ELSE target' = max_brightness_value /\ Goto("read_again")
    /\ UNCHANGED <<dev_max, brightness, args, max_brightness_value, current_value,
                   current_brightness_value, iter, b, brightness0,
                   writes, attempts, flushed, call, ret>>

\* lines 85-97; args[1] of the code is args[2] here
ComputeTarget ==
    /\ pc = "args"
    /\ IF Len(args) > 1
       THEN LET parsed == parse_input_as_percent(args[2])
            IN  IF ~parsed.ok
                THEN Return(Err("ParseIntError", "parse_input_as_percent"))
                     /\ UNCHANGED target
                ELSE /\ target' = calculate_target_value(parsed.signum, parsed.percent,
                                      current_value, max_brightness_value, 0)
                     /\ Goto("read_again")
       ELSE target' = max_brightness_value /\ Goto("read_again")
    /\ UNCHANGED <<dev_max, brightness, args, max_brightness_value, current_value,
                   current_brightness_value, iter, b, opened, brightness0,
                   writes, attempts, flushed, call, ret>>

\* line 98
ReadCurrentAgain ==
    /\ pc = "read_again"
    /\ \E io_ok \in BOOLEAN :
         IF ~io_ok
         THEN Return(Err("io::Error", "read_again"))
              /\ UNCHANGED current_brightness_value
         ELSE IF ~parse_u16(brightness).ok
         THEN Return(Err("ParseIntError", "read_again"))
              /\ UNCHANGED current_brightness_value
         ELSE current_brightness_value' = parse_u16(brightness).value /\ Goto("create")
    /\ UNCHANGED <<dev_max, brightness, args, max_brightness_value, current_value,
                   target, iter, b, opened, brightness0, writes, attempts, flushed,
                   call, ret>>

\* line 99: open(O_WRONLY|O_CREAT|O_TRUNC) of a sysfs attribute; truncating
\* the attribute does not store a value
CreateFile ==
    /\ pc = "create"
    /\ \E io_ok \in BOOLEAN :
         IF ~io_ok
         THEN Return(Err("io::Error", "File::create")) /\ UNCHANGED opened
         ELSE opened' = TRUE /\ Goto("branch")
    /\ UNCHANGED <<dev_max, brightness, args, max_brightness_value, current_value,
                   target, current_brightness_value, iter, b, brightness0,
                   writes, attempts, flushed, call, ret>>

\* mutant: the upward loop is entered when target >= current
Branch_inclusive ==
    /\ pc = "branch"
    /\ IF target >= current_brightness_value
       THEN /\ iter' = [start |-> current_brightness_value, end |-> target,
                        exhausted |-> FALSE, rev |-> FALSE]
            /\ Goto("for_up")
       ELSE /\ iter' = [start |-> target, end |-> current_brightness_value,
                        exhausted |-> FALSE, rev |-> TRUE]
            /\ Goto("for_down")
    /\ UNCHANGED <<dev_max, brightness, args, max_brightness_value, current_value,
                   target, current_brightness_value, b, opened, brightness0,
                   writes, attempts, flushed, call, ret>>

\* lines 100, 101, 104, 105, 109
Branch ==
    /\ pc = "branch"
    /\ IF target > current_brightness_value
       THEN /\ iter' = [start |-> current_brightness_value, end |-> target,
                        exhausted |-> FALSE, rev |-> FALSE]
            /\ Goto("for_up")
       ELSE IF target < current_brightness_value
       THEN /\ iter' = [start |-> target, end |-> current_brightness_value,
                        exhausted |-> FALSE, rev |-> TRUE]
            /\ Goto("for_down")
       ELSE Return(Ok) /\ UNCHANGED iter
    /\ UNCHANGED <<dev_max, brightness, args, max_brightness_value, current_value,
                   target, current_brightness_value, b, opened, brightness0,
                   writes, attempts, flushed, call, ret>>

\* lines 101-103, 109
ForUp ==
    /\ pc = "for_up"
    /\ LET n == range_next(iter)
       IN  IF n.some
           THEN b' = n.item /\ iter' = n.it /\ Goto("write_all")
           ELSE Return(Ok) /\ UNCHANGED <<b, iter>>
    /\ UNCHANGED <<dev_max, brightness, args, max_brightness_value, current_value,
                   target, current_brightness_value, opened, brightness0,
                   writes, attempts, flushed, call, ret>>

\* lines 105-107, 109
ForDown ==
    /\ pc = "for_down"
    /\ LET n == range_next_back(iter)
       IN  IF n.some
           THEN b' = n.item /\ iter' = n.it /\ Goto("write_all")
           ELSE Return(Ok) /\ UNCHANGED <<b, iter>>
    /\ UNCHANGED <<dev_max, brightness, args, max_brightness_value, current_value,
                   target, current_brightness_value, opened, brightness0,
                   writes, attempts, flushed, call, ret>>

\* mutant: a failed write is noted and the loop goes on
WriteAll_keep_going ==
    /\ pc = "write_all"
    /\ attempts' = attempts + 1
    /\ \E io_ok \in BOOLEAN :
         IF io_ok
         THEN /\ brightness' = b
              /\ writes' = Append(writes, b)
              /\ Goto("sync_data")
         ELSE /\ pc' = "sleep"
              /\ result' = Err("io::Error", "write_all")
              /\ UNCHANGED <<brightness, writes>>
    /\ UNCHANGED <<dev_max, args, max_brightness_value, current_value, target,
                   current_brightness_value, iter, b, opened, brightness0,
                   flushed, call, ret>>

\* line 113: one write(2) to the attribute stores the value; a failed
\* write stores nothing
WriteAll ==
    /\ pc = "write_all"
    /\ attempts' = attempts + 1
    /\ \E io_ok \in BOOLEAN :
         IF io_ok
         THEN /\ brightness' = b
              /\ writes' = Append(writes, b)
              /\ Goto("sync_data")
         ELSE /\ Return(Err("io::Error", "write_all"))
              /\ UNCHANGED <<brightness, writes>>
    /\ UNCHANGED <<dev_max, args, max_brightness_value, current_value, target,
                   current_brightness_value, iter, b, opened, brightness0,
                   flushed, call, ret>>

\* line 114
SyncData ==
    /\ pc = "sync_data"
    /\ \E io_ok \in BOOLEAN :
         IF io_ok
         THEN flushed' = flushed + 1 /\ Goto("sleep")
         ELSE Return(Err("io::Error", "sync_data")) /\ UNCHANGED flushed
    /\ UNCHANGED <<dev_max, brightness, args, max_brightness_value, current_value,
                   target, current_brightness_value, iter, b, opened, brightness0,
                   writes, attempts, call, ret>>

\* lines 115-116: the pause, then back to the loop that called
Sleep ==
    /\ pc = "sleep"
    /\ Goto(IF iter.rev THEN "for_down" ELSE "for_up")
    /\ UNCHANGED <<dev_max, brightness, args, max_brightness_value, current_value,
                   target, current_brightness_value, iter, b, opened, brightness0,
                   writes, attempts, flushed, call, ret>>

Next ==
    \/ ReadMaxBrightness
    \/ ReadCurrent
    \/ ComputeTarget
    \/ ReadCurrentAgain
    \/ CreateFile
    \/ Branch
    \/ ForUp
    \/ ForDown
    \/ WriteAll
    \/ SyncData
    \/ Sleep

Spec == Init /\ [][Next]_vars

----------------------------------------------------------------------------
(* The unit tests: each calls one function with arguments of its choice.   *)
(* kira() is not running while they do.                                    *)

KiraIdle ==
    /\ pc = "done"
    /\ dev_max = 0
    /\ brightness = 0
    /\ args = <<ProgramName>>
    /\ max_brightness_value = 0
    /\ current_value = 0
    /\ target = 0
    /\ current_brightness_value = 0
    /\ iter = NoRange
    /\ b = 0
    /\ opened = FALSE
    /\ result = Running
    /\ brightness0 = 0
    /\ writes = <<>>
    /\ attempts = 0
    /\ flushed = 0

\* max values: the small ones, those of the tests, and values whose
\* percentage falls just below an integer or beyond the u16 range
MaxValues == 0..MaxSmall \cup {100, 1000, 4438, 10000, 14687, 30049, 65449, 65501, 65535}

CurrentValues == 0..MaxSmall \cup {10, 55, 80, 100, 65535}

MinValues == {0, 1, 50, 999, 65535}

Signums == {None, Some(TRUE), Some(FALSE)}

CalcCalls ==
    { c \in [fn : {"calculate_target_value"}, signum : Signums, percent : 0..U8Max,
             current : CurrentValues, max : MaxValues, min : MinValues] :
        c.min <= c.max }

InitCalc == KiraIdle /\ call \in CalcCalls /\ ret = <<>>

CallCalc ==
    /\ call.fn = "calculate_target_value"
    /\ ret = <<>>
    /\ ret' = <<calculate_target_value(call.signum, call.percent, call.current,
                                       call.max, call.min)>>
    /\ UNCHANGED <<call, kira_vars>>

NextCalc == CallCalc

SpecCalc == InitCalc /\ [][NextCalc]_vars

Alphabet == {"+", "-", "0", "2", "3", "5", "6", "x"}

\* the literal tokens of the tests that the alphabet does not already give
TestTokens ==
    { <<"0", "x", "1", "1", "0", "0", "1", "0">>,
      <<"f", "i", "v", "e">>,
      <<"n", "o", "t", " ", "a", " ", "n", "u", "m", "b", "e", "r">>,
      <<"4", "2", "9", "3", "4", "6", "3", "2">>,
      <<"+", "1", "0", "0">>, <<"-", "1", "0", "0">>, <<"+", "4", "4">>,
      <<"2", "4", "4">>, <<"0", "0", "0", "0", "0", "2", "5", "5">>,
      <<"0", "0", "0", "0", "0", "2", "5", "6">> }

Tokens == UNION {[1..k -> Alphabet] : k \in 0..MaxTokenLen} \cup TestTokens

ParseCalls == {[fn |-> "parse_input_as_percent", input |-> t] : t \in Tokens}

InitParse == KiraIdle /\ call \in ParseCalls /\ ret = <<>>

CallParse ==
    /\ call.fn = "parse_input_as_percent"
    /\ ret = <<>>
    /\ ret' = <<parse_input_as_percent(call.input)>>
    /\ UNCHANGED <<call, kira_vars>>

NextParse == CallParse

SpecParse == InitParse /\ [][NextParse]_vars

----------------------------------------------------------------------------
(* Properties of the target calculator, checked under SpecCalc *)

Returned(fn) == call # <<>> /\ call.fn = fn /\ ret # <<>>

\* the value the code clamps: the delta of an absolute directive, the
\* saturated sum or difference of a relative one
Unclamped(c) ==
    IF c.signum = None THEN percent_of_max(c.max, c.percent)
    ELSE IF c.signum[1] THEN saturating_add(c.current, percent_of_max(c.max, c.percent))
    ELSE saturating_sub(c.current, percent_of_max(c.max, c.percent))

\* C2: for every directive, percentage 0..255, current value and min <= max
\* the target lies in [min, max]; a value >= max becomes max, a value <= min
\* becomes min, anything else is returned unchanged.
C2_TargetWithinRange ==
    Returned("calculate_target_value") =>
        LET v == Unclamped(call)
            out == ret[1]
        IN  /\ call.min <= out /\ out <= call.max
            /\ v >= call.max => out = call.max
            /\ (v < call.max /\ v <= call.min) => out = call.min
            /\ (call.min < v /\ v < call.max) => out = v

C2_Witness ==
    /\ Returned("calculate_target_value")
    /\ call.signum = Some(FALSE) /\ call.percent = 22 /\ call.current = 55
    /\ call.max = 100 /\ call.min = 50
    /\ ret = <<50>>

\* C3: with the Absolute directive, a percentage p in [0,100] and min = 0,
\* the target is floor(max * p / 100) whatever the current value is, and it
\* lies in [0, max].
C3_AbsoluteIsFloor ==
    (/\ Returned("calculate_target_value")
     /\ call.signum = None /\ call.percent <= 100 /\ call.min = 0) =>
        /\ ret[1] = (call.max * call.percent) \div 100
        /\ 0 <= ret[1] /\ ret[1] <= call.max

C3_Witness ==
    /\ Returned("calculate_target_value")
    /\ call.signum = None /\ call.percent = 77 /\ call.max = 4438 /\ call.min = 0
    /\ call.current = 55
    /\ ret = <<3417>>

Clamp(v, min, max) == IF v >= max THEN max ELSE IF v <= min THEN min ELSE v

ExactDelta(c) == (c.max * c.percent) \div 100

\* C4: relative directives never wrap: the result is the clamp of
\* current + delta (IncreaseBy) or of max(0, current - delta) (DecreaseBy),
\* delta = floor(max * percentage / 100), all taken in unbounded integers.
C4_RelativeNeverWraps ==
    (Returned("calculate_target_value") /\ call.signum # None) =>
        LET d == ExactDelta(call)
            diff == IF call.current - d < 0 THEN 0 ELSE call.current - d
        IN  ret[1] = IF call.signum[1]
                     THEN Clamp(call.current + d, call.min, call.max)
                     ELSE Clamp(diff, call.min, call.max)

C4_Witness ==
    /\ Returned("calculate_target_value")
    /\ call.signum = Some(TRUE) /\ call.percent = 255 /\ call.current = 65535
    /\ call.max = 65535 /\ call.min = 0
    /\ call.current + ExactDelta(call) > U16Max
    /\ ret = <<65535>>

----------------------------------------------------------------------------
(* Properties of the argument parser, checked under SpecParse *)

AllDigits(ds) == \A i \in 1..Len(ds) : IsDigit(ds[i])

HasSign(tok) == tok # <<>> /\ tok[1] \in {"+", "-"}

DigitsOf(tok) == IF HasSign(tok) THEN Tail(tok) ELSE tok

\* the shape [+-]?[0-9]+
MatchesShape(tok) == DigitsOf(tok) # <<>> /\ AllDigits(DigitsOf(tok))

RECURSIVE DecimalValue(_)
DecimalValue(ds) ==
    IF ds = <<>> THEN 0
    ELSE 10 * DecimalValue(SubSeq(ds, 1, Len(ds) - 1)) + to_digit(ds[Len(ds)])

RelationOf(tok) ==
    IF ~HasSign(tok) THEN None ELSE IF tok[1] = "+" THEN Some(TRUE) ELSE Some(FALSE)

\* C5: a token of the shape [+-]?[0-9]+ parses exactly when its digits
\* denote a number <= 255, and then yields that number with IncreaseBy for
\* '+', DecreaseBy for '-', Absolute for no sign.
C5_ShapedTokenParses ==
    (Returned("parse_input_as_percent") /\ MatchesShape(call.input)) =>
        LET v == DecimalValue(DigitsOf(call.input))
        IN  /\ ret[1].ok <=> v <= 255
            /\ ret[1].ok => /\ ret[1].percent = v
                            /\ ret[1].signum = RelationOf(call.input)

C5_Witness ==
    /\ Returned("parse_input_as_percent")
    /\ call.input = <<"-", "2", "5", "5">>
    /\ ret[1].ok /\ ret[1].percent = 255 /\ ret[1].signum = Some(FALSE)

\* C6: every token that does not have the shape [+-]?[0-9]+ fails to parse
\* and yields no directive.
C6_UnshapedTokenFails ==
    (Returned("parse_input_as_percent") /\ ~MatchesShape(call.input)) => ~ret[1].ok

----------------------------------------------------------------------------
(* Properties of an invocation, checked under Spec *)

Failed == result # Running /\ result[1] = "Err"

FailedIn(ops) == Failed /\ result[3] \in ops

TransitionOps == {"write_all", "sync_data"}

\* line 97 has been passed: target holds the computed target
TargetComputed ==
    \/ pc \in {"read_again", "create", "branch", "for_up", "for_down",
               "write_all", "sync_data", "sleep"}
    \/ result = Ok
    \/ FailedIn({"read_again", "File::create"} \cup TransitionOps)

\* line 98 has been passed as well
CurrentReadAgain ==
    \/ pc \in {"create", "branch", "for_up", "for_down", "write_all", "sync_data",
               "sleep"}
    \/ result = Ok
    \/ FailedIn({"File::create"} \cup TransitionOps)

Distance(x, y) == IF x < y THEN y - x ELSE x - y

\* the consecutive integers from one value to another, both included
Walk(from, to) ==
    [i \in 1..(Distance(from, to) + 1) |->
        IF to > from THEN from + (i - 1) ELSE from - (i - 1)]

IsPrefix(s, t) == Len(s) <= Len(t) /\ \A i \in 1..Len(s) : s[i] = t[i]

\* C1: when target # current the values written are the consecutive integers
\* from current to target in walking order, each flushed before the next is
\* written, and with no failure all of them are written, the last being target.
C1_TransitionWalk ==
    (CurrentReadAgain /\ target # current_brightness_value) =>
        LET w == Walk(current_brightness_value, target)
        IN  /\ IsPrefix(writes, w)
            /\ \A i \in 2..Len(writes) : Distance(writes[i - 1], writes[i]) = 1
            /\ flushed <= Len(writes) /\ Len(writes) <= flushed + 1
            /\ pc = "write_all" => flushed = Len(writes)
            /\ result = Ok => /\ Len(writes) = Len(w)
                              /\ flushed = Len(w)
                              /\ writes[Len(writes)] = target
                              /\ brightness = target

C1_Witness ==
    /\ result = Ok
    /\ current_brightness_value = 0 /\ target = 3
    /\ writes = <<0, 1, 2, 3>> /\ flushed = 4

\* C7: with no argument the target is what the Absolute directive with
\* percentage 100 gives, which is max, and a run that succeeds leaves the
\* device at max after walking there from current.
C7_NoArgumentIsFull ==
    (Len(args) = 1 /\ TargetComputed) =>
        /\ target = calculate_target_value(None, 100, current_value,
                                           max_brightness_value, 0)
        /\ target = max_brightness_value
        /\ result = Ok =>
              /\ brightness = max_brightness_value
              /\ current_brightness_value # target =>
                    writes = Walk(current_brightness_value, max_brightness_value)

C7_Witness ==
    /\ Len(args) = 1 /\ result = Ok
    /\ max_brightness_value = 3 /\ brightness0 = 1
    /\ writes = <<1, 2, 3>> /\ brightness = 3

\* C8: when the target equals the current brightness no iteration and no
\* write happens, and the device holds what it held before.
C8_NoOpWritesNothing ==
    (CurrentReadAgain /\ target = current_brightness_value) =>
        /\ attempts = 0 /\ writes = <<>> /\ flushed = 0
        /\ brightness = brightness0
        /\ pc \notin {"for_up", "for_down", "write_all", "sync_data", "sleep"}

C8_Witness ==
    /\ result = Ok /\ opened
    /\ Len(args) = 2 /\ target = 2 /\ current_brightness_value = 2
    /\ attempts = 0 /\ brightness = 2

LastWritten == IF writes = <<>> THEN brightness0 ELSE writes[Len(writes)]

\* C9: a failed write or flush ends the transition at once: the failure is
\* returned, the failed step is not retried, nothing more is written, and
\* the device holds the last value written successfully.
C9_FailureAborts ==
    /\ [](FailedIn(TransitionOps) =>
            /\ pc = "done"
            /\ result[2] = "io::Error"
            /\ brightness = LastWritten
            /\ IsPrefix(writes, Walk(current_brightness_value, target))
            /\ attempts = Len(writes) + (IF result[3] = "write_all" THEN 1 ELSE 0))
    /\ [][FailedIn(TransitionOps) =>
            /\ result' = result
            /\ UNCHANGED <<brightness, writes, attempts, flushed>>]_vars

C9_Witness ==
    /\ FailedIn({"write_all"})
    /\ brightness0 = 0 /\ target = 4
    /\ writes = <<0, 1, 2>> /\ attempts = 4 /\ brightness = 2

\* C10: an argument that fails to parse leaves the device alone: the
\* brightness file is not opened for writing, nothing is written, and the
\* brightness is what it was.
C10_ParseErrorTouchesNothing ==
    FailedIn({"parse_input_as_percent"}) =>
        /\ pc = "done"
        /\ result[2] = "ParseIntError"
        /\ ~opened
        /\ attempts = 0 /\ writes = <<>>
        /\ brightness = brightness0

C10_Witness ==
    /\ FailedIn({"parse_input_as_percent"})
    /\ args = <<ProgramName, <<"3", "0", "0">>>>
    /\ brightness0 = 2 /\ brightness = 2 /\ ~opened

====
